---- MODULE Spec2Model ----
(***************************************************************************)
(* Model of consolidate_features.py (x402Arcade): the FeatureConsolidator  *)
(* pipeline load -> consolidate_all -> validate -> execute_migration run   *)
(* by main() against a SQLite store.                                        *)
(*                                                                         *)
(* Text values (Python str, SQLite TEXT) are sequences of Unicode code     *)
(* points, so that comparison, split(), concatenation and JSON encoding    *)
(* are computed as the code computes them.                                  *)
(***************************************************************************)
EXTENDS Integers, Sequences, FiniteSets, TLC

VARIABLES
    disk,          \* committed content of the database file: table name -> table
    work,          \* the connection's uncommitted view while a transaction is open
    inTxn,         \* TRUE while the connection has an open transaction
    pc,            \* position of the process in main() / execute_migration()
    args,          \* parsed command line: [dry_run, execute]
    original,      \* main(): original = consolidator.get_all_features()
    consolidated,  \* main(): consolidated list returned by consolidate_all
    stats,         \* main(): stats dictionary returned by consolidate_all
    idx,           \* execute_migration(): number of INSERTs already executed
    err,           \* the exception that ended the current call, "none" if none
    report,        \* what the run has printed so far (sequence of report events)
    cat_arg,       \* consolidate_category(): the category argument of the call
    pre,           \* history: committed tables at the start of the current run
    hist           \* history: bookkeeping of earlier runs on the same store

vars == <<disk, work, inTxn, pc, args, original, consolidated, stats, idx, err,
          report, cat_arg, pre, hist>>

-----------------------------------------------------------------------------
(* Bounds of the model *)

\* number of padding categories in the generated stores
Pad == 83
\* size of the varied category in the generated stores
CatN == 10
\* consolidate_category is applied to every category size 0..MaxSmall ...
MaxSmall == 13
\* ... and to the sizes around the thresholds named by the specification
BigSizes == {50, 51, 52, 100, 101, 199, 200}

-----------------------------------------------------------------------------
(* Generic helpers *)

Min2(a, b) == IF a <= b THEN a ELSE b

Max2(a, b) == IF a >= b THEN a ELSE b

Range(s) == {s[i] : i \in 1..Len(s)}

\* the sequence s with every element computed once (s itself; it only fixes
\* the order of evaluation)
Strict(s) == s \o <<>>

\* concatenation of a sequence of sequences (balanced, so that the depth of
\* the evaluation stays logarithmic)
RECURSIVE FlattenRange(_, _, _)
FlattenRange(ss, lo, hi) ==
    IF lo > hi THEN <<>>
    ELSE IF lo = hi THEN ss[lo]
    ELSE LET m == (lo + hi) \div 2
         IN FlattenRange(ss, lo, m) \o FlattenRange(ss, m + 1, hi)

Flatten(ss) == FlattenRange(ss, 1, Len(ss))

RECURSIVE SumRange(_, _, _)
SumRange(ns, lo, hi) ==
    IF lo > hi THEN 0
    ELSE IF lo = hi THEN ns[lo]
    ELSE LET m == (lo + hi) \div 2
         IN SumRange(ns, lo, m) + SumRange(ns, m + 1, hi)

Sum(ns) == SumRange(ns, 1, Len(ns))

\* s is a contiguous part of t (Python: s in t)
Contains(t, s) ==
    \E i \in 1..(Len(t) - Len(s) + 1) : SubSeq(t, i, i + Len(s) - 1) = s

\* Python comparison of two str values: lexicographic by code point
StrLess(a, b) ==
    \E k \in 1..(Min2(Len(a), Len(b)) + 1) :
        /\ \A j \in 1..(k - 1) : a[j] = b[j]
        /\ \/ k = Len(a) + 1 /\ k <= Len(b)
           \/ k <= Len(a) /\ k <= Len(b) /\ a[k] < b[k]

\* decimal digits of a natural number (Python f"{n}")
RECURSIVE Decimal(_)
Decimal(n) == IF n < 10 THEN <<48 + n>> ELSE Decimal(n \div 10) \o <<48 + (n % 10)>>

\* three decimal digits, zero padded (used only to generate distinct labels)
Digits3(n) == <<48 + ((n \div 100) % 10), 48 + ((n \div 10) % 10), 48 + (n % 10)>>

-----------------------------------------------------------------------------
(* json.dumps / json.loads on a list of strings *)

HexDigit(d) == IF d < 10 THEN 48 + d ELSE 87 + d

\* "\uXXXX" for one UTF-16 code unit
EscapeUnit(u) ==
    <<92, 117, HexDigit((u \div 4096) % 16), HexDigit((u \div 256) % 16),
      HexDigit((u \div 16) % 16), HexDigit(u % 16)>>

\* json.encoder.py_encode_basestring_ascii: the replacement of one character
EscapeChar(c) ==
    IF c = 34 THEN <<92, 34>>
    ELSE IF c = 92 THEN <<92, 92>>
    ELSE IF c = 10 THEN <<92, 110>>
    ELSE IF c = 13 THEN <<92, 114>>
    ELSE IF c = 9 THEN <<92, 116>>
    ELSE IF c = 8 THEN <<92, 98>>
    ELSE IF c = 12 THEN <<92, 102>>
    ELSE IF c >= 32 /\ c <= 126 THEN <<c>>
    ELSE IF c < 65536 THEN EscapeUnit(c)
    ELSE EscapeUnit(55296 + (((c - 65536) \div 1024) % 1024))
             \o EscapeUnit(56320 + ((c - 65536) % 1024))

JsonString(s) == <<34>> \o Flatten([i \in 1..Len(s) |-> EscapeChar(s[i])]) \o <<34>>

\* json.dumps(list of str): '["a", "b"]' with the default separators
JsonDumps(steps) ==
    <<91>> \o Flatten([i \in 1..Len(steps) |->
                          (IF i = 1 THEN <<>> ELSE <<44, 32>>) \o JsonString(steps[i])])
           \o <<93>>

\* number of consecutive backslashes that end right before position i
BackslashesBefore(t, i) ==
    CHOOSE k \in 0..(i - 1) :
        /\ \A j \in (i - k)..(i - 1) : t[j] = 92
        /\ (k = i - 1 \/ t[i - k - 1] # 92)

HexValue(c) == IF c >= 48 /\ c <= 57 THEN c - 48
               ELSE IF c >= 97 /\ c <= 102 THEN c - 87
               ELSE c - 55

\* position i of raw belongs to an escape that starts before i
EscapeConsumes(raw, i) ==
    \/ BackslashesBefore(raw, i) % 2 = 1
    \/ \E j \in Max2(1, i - 4)..(i - 1) :
           raw[j] = 117 /\ BackslashesBefore(raw, j) % 2 = 1

\* the decoded token that starts at position i of raw: [v: code unit, u: came from \u]
TokenAt(raw, i) ==
    IF raw[i] # 92 THEN [v |-> raw[i], u |-> FALSE]
    ELSE LET c == raw[i + 1]
         IN IF c = 117
            THEN [v |-> HexValue(raw[i + 2]) * 4096 + HexValue(raw[i + 3]) * 256
                        + HexValue(raw[i + 4]) * 16 + HexValue(raw[i + 5]),
                  u |-> TRUE]
            ELSE [v |-> (IF c = 110 THEN 10 ELSE IF c = 114 THEN 13
                         ELSE IF c = 116 THEN 9 ELSE IF c = 98 THEN 8
                         ELSE IF c = 102 THEN 12 ELSE c),
                  u |-> FALSE]

IsHigh(tok) == tok.u /\ tok.v >= 55296 /\ tok.v <= 56319

IsLow(tok) == tok.u /\ tok.v >= 56320 /\ tok.v <= 57343

\* json.decoder.py_scanstring: the str between two delimiting quotes
JsonUnescape(raw) ==
    LET starts == SelectSeq([i \in 1..Len(raw) |-> i],
                            LAMBDA i : ~EscapeConsumes(raw, i))
        toks   == [k \in 1..Len(starts) |-> TokenAt(raw, starts[k])]
        keep   == SelectSeq([k \in 1..Len(toks) |-> k],
                            LAMBDA k : ~(IsLow(toks[k]) /\ k > 1 /\ IsHigh(toks[k - 1])))
    IN [m \in 1..Len(keep) |->
           LET k == keep[m]
           IN IF IsHigh(toks[k]) /\ k < Len(toks) /\ IsLow(toks[k + 1])
              THEN 65536 + (toks[k].v - 55296) * 1024 + (toks[k + 1].v - 56320)
              ELSE toks[k].v]

\* json.loads of the text of a JSON array of strings
JsonLoads(t) ==
    LET quotes == SelectSeq([i \in 1..Len(t) |-> i],
                            LAMBDA i : t[i] = 34 /\ BackslashesBefore(t, i) % 2 = 0)
    IN [k \in 1..(Len(quotes) \div 2) |->
           JsonUnescape(SubSeq(t, quotes[2 * k - 1] + 1, quotes[2 * k] - 1))]

-----------------------------------------------------------------------------
(* Feature and its stored form *)

\* A nullable column / Optional value: <<>> is NULL / None, <<v>> is the value v.
NULL == <<>>

Some(v) == <<v>>

\* Feature.from_row: the Feature built from a row of the table
from_row(row) ==
    [id          |-> row.id,
     priority    |-> row.priority,
     category    |-> row.category,
     name        |-> row.name,
     description |-> row.description,
     steps       |-> IF row.steps # NULL /\ row.steps[1] # <<>>
                     THEN JsonLoads(row.steps[1]) ELSE <<>>,
     passes      |-> row.passes # 0,
     in_progress |-> row.in_progress # 0,
     blocked_by_intervention_id |-> row.blocked_by_intervention_id,
     deferred    |-> row.deferred # NULL /\ row.deferred[1] # 0]

\* mutant: every flag is stored as 0
BoolToIntZero(b) == 0

BoolToInt(b) == IF b THEN 1 ELSE 0

\* the parameter tuple of the INSERT in execute_migration
ToRow(f) ==
    [id          |-> f.id,
     priority    |-> f.priority,
     category    |-> f.category,
     name        |-> f.name,
     description |-> f.description,
     steps       |-> Some(JsonDumps(f.steps)),
     passes      |-> BoolToInt(f.passes),
     in_progress |-> BoolToInt(f.in_progress),
     blocked_by_intervention_id |-> f.blocked_by_intervention_id,
     deferred    |-> Some(BoolToInt(f.deferred))]

-----------------------------------------------------------------------------
(* The store: tables of the SQLite database *)

TableNames == {"features", "features_old", "features_consolidated"}

\* a table name that is not in use
NoTable == [exists |-> FALSE, constrained |-> FALSE, rows |-> <<>>]

\* A table: its rows in scan order, and whether it carries the constraints of
\* the original schema (id INTEGER PRIMARY KEY, column defaults).
Table(rows, constrained) == [exists |-> TRUE, constrained |-> constrained, rows |-> rows]

\* mutant: the rows come back in scan order
OrderByScan(rows) == rows

\* SELECT ... ORDER BY priority: rows by ascending priority, rows of equal
\* priority in scan order
OrderByPriority(rows) ==
    LET n    == Len(rows)
        prio == Strict([i \in 1..n |-> rows[i].priority])
        rank == Strict([i \in 1..n |->
                    Cardinality({j \in 1..n :
                        prio[j] < prio[i] \/ (prio[j] = prio[i] /\ j < i)}) + 1])
        at   == Strict([r \in 1..n |-> CHOOSE i \in 1..n : rank[i] = r])
    IN [r \in 1..n |-> rows[at[r]]]

\* FeatureConsolidator.get_all_features on the connection's view db
get_all_features(db) ==
    LET rows == OrderByPriority(db["features"].rows)
    IN Strict([i \in 1..Len(rows) |-> from_row(rows[i])])

\* insert_features: the id SQLite stores for a row inserted without an id
\* column: the next rowid when id is the table's INTEGER PRIMARY KEY, NULL in
\* a table without constraints
insert_features_id(table) ==
    IF table.constrained
    THEN LET ids == {table.rows[i].id[1] : i \in 1..Len(table.rows)}
         IN  Some(IF ids = {} THEN 1
                  ELSE 1 + (CHOOSE m \in ids : \A x \in ids : x <= m))
    ELSE NULL

-----------------------------------------------------------------------------
(* Consolidation *)

AudioSystem == <<65, 117, 100, 105, 111, 32, 83, 121, 115, 116, 101, 109>>

DefaultKey == <<100, 101, 102, 97, 117, 108, 116>>

\* the hand-authored partition of the "Audio System" rule
AudioGroups ==
    << [start |-> 0,  end |-> 10,  name |-> <<83, 101, 116, 117, 112, 32, 65, 117, 100, 105, 111, 32, 73, 110, 102, 114, 97, 115, 116, 114, 117, 99, 116, 117, 114, 101>>],
       [start |-> 10, end |-> 18,  name |-> <<73, 109, 112, 108, 101, 109, 101, 110, 116, 32, 83, 111, 117, 110, 100, 32, 69, 102, 102, 101, 99, 116, 115, 32, 83, 121, 115, 116, 101, 109>>],
       [start |-> 18, end |-> 25,  name |-> <<73, 109, 112, 108, 101, 109, 101, 110, 116, 32, 77, 117, 115, 105, 99, 32, 83, 121, 115, 116, 101, 109>>],
       [start |-> 25, end |-> 38,  name |-> <<65, 100, 100, 32, 85, 73, 32, 83, 111, 117, 110, 100, 32, 69, 102, 102, 101, 99, 116, 115>>],
       [start |-> 38, end |-> 50,  name |-> <<65, 100, 100, 32, 83, 110, 97, 107, 101, 32, 71, 97, 109, 101, 32, 65, 117, 100, 105, 111>>],
       [start |-> 50, end |-> 62,  name |-> <<65, 100, 100, 32, 84, 101, 116, 114, 105, 115, 32, 71, 97, 109, 101, 32, 65, 117, 100, 105, 111>>],
       [start |-> 62, end |-> 72,  name |-> <<65, 100, 100, 32, 65, 114, 99, 97, 100, 101, 45, 87, 105, 100, 101, 32, 65, 117, 100, 105, 111>>],
       [start |-> 72, end |-> 78,  name |-> <<73, 109, 112, 108, 101, 109, 101, 110, 116, 32, 65, 117, 100, 105, 111, 32, 65, 99, 99, 101, 115, 115, 105, 98, 105, 108, 105, 116, 121>>],
       [start |-> 78, end |-> 85,  name |-> <<79, 112, 116, 105, 109, 105, 122, 101, 32, 65, 117, 100, 105, 111, 32, 80, 101, 114, 102, 111, 114, 109, 97, 110, 99, 101>>],
       [start |-> 85, end |-> 92,  name |-> <<67, 114, 101, 97, 116, 101, 32, 65, 117, 100, 105, 111, 32, 85, 73, 32, 67, 111, 109, 112, 111, 110, 101, 110, 116, 115>>],
       [start |-> 92, end |-> 100, name |-> <<73, 109, 112, 108, 101, 109, 101, 110, 116, 32, 65, 117, 100, 105, 111, 32, 80, 101, 114, 115, 105, 115, 116, 101, 110, 99, 101, 32, 38, 32, 77, 105, 120, 105, 110, 103>>] >>

\* FeatureConsolidator.get_consolidation_rules: the rule dictionary of a category
get_consolidation_rules(category, feature_count) ==
    IF category = AudioSystem
    THEN [target_count |-> 12, groups |-> AudioGroups]
    ELSE IF category = DefaultKey
    THEN [consolidation_factor |-> 3]
    ELSE [target_count |-> Max2(3, feature_count \div 3), consolidation_factor |-> 3]

\* status glyphs of merge_steps
CheckMark == 10003

Circle == 9675

\* the prefix of an indented child step: "    - "
StepPrefix == <<32, 32, 32, 32, 45, 32>>

\* mutant: the last step of every child is left out
ChildBlockShort(child) ==
    << <<91, (IF child.passes THEN CheckMark ELSE Circle), 93, 32>> \o child.name >>
        \o [i \in 1..(Len(child.steps) - 1) |-> StepPrefix \o child.steps[i]]

\* the marker line and the indented steps of one child
ChildBlock(child) ==
    << <<91, (IF child.passes THEN CheckMark ELSE Circle), 93, 32>> \o child.name >>
        \o [i \in 1..Len(child.steps) |-> StepPrefix \o child.steps[i]]

\* mutant: the marker lines of all children first, the steps after them
merge_steps_markers_first(child_features) ==
    Flatten([c \in 1..Len(child_features) |-> SubSeq(ChildBlock(child_features[c]), 1, 1)])
        \o Flatten([c \in 1..Len(child_features) |->
                       SubSeq(ChildBlock(child_features[c]), 2,
                              Len(child_features[c].steps) + 1)])

\* mutant: the children's steps without the marker lines
merge_steps_unmarked(child_features) ==
    Flatten([c \in 1..Len(child_features) |->
                [i \in 1..Len(child_features[c].steps) |->
                    StepPrefix \o child_features[c].steps[i]]])

\* FeatureConsolidator.merge_steps
merge_steps(child_features) ==
    Flatten([c \in 1..Len(child_features) |-> ChildBlock(child_features[c])])

\* characters on which str.split() splits
Whitespace == (9..13) \cup (28..32) \cup {133, 160, 5760} \cup (8192..8202)
                  \cup {8232, 8233, 8239, 8287, 12288}

\* name.split() is not empty
HasWord(name) == \E i \in 1..Len(name) : name[i] \notin Whitespace

\* mutant: the whole name is taken as its first word
FirstWordWholeName(name) == name

\* name.split()[0]
FirstWord(name) ==
    LET first == CHOOSE i \in 1..Len(name) :
                     /\ name[i] \notin Whitespace
                     /\ \A j \in 1..(i - 1) : name[j] \in Whitespace
        last  == CHOOSE j \in first..Len(name) :
                     /\ \A k \in first..j : name[k] \notin Whitespace
                     /\ (j = Len(name) \/ name[j + 1] \in Whitespace)
    IN SubSeq(name, first, last)

\* mutant: the larger chunk size already at 50 records
ChunkFactorFrom50(n) == IF n >= 50 THEN 4 ELSE 3

\* the chunk size chosen for a category of n records
ChunkFactor(n) == IF n > 50 THEN 4 ELSE 3

\* mutant: the parent takes the largest priority of its chunk
MaxPriority(group) ==
    CHOOSE p \in {group[i].priority : i \in 1..Len(group)} :
        \A i \in 1..Len(group) : p >= group[i].priority

MinPriority(group) ==
    CHOOSE p \in {group[i].priority : i \in 1..Len(group)} :
        \A i \in 1..Len(group) : p <= group[i].priority

\* mutant: the parent passes as soon as one child passes
ParentAnyPasses(group, category) ==
    [id          |-> group[1].id,
     priority    |-> MinPriority(group),
     category    |-> category,
     name        |-> IF Len(group) > 1
                     THEN <<73, 109, 112, 108, 101, 109, 101, 110, 116, 32>>
                              \o FirstWord(group[1].name)
                              \o <<32, 83, 117, 98, 115, 121, 115, 116, 101, 109>>
                     ELSE group[1].name,
     description |-> <<66, 117, 110, 100, 108, 101, 32, 111, 102, 32>>
                         \o Decimal(Len(group))
                         \o <<32, 114, 101, 108, 97, 116, 101, 100, 32, 102, 101, 97,
                              116, 117, 114, 101, 115, 58, 10>>
                         \o Flatten([i \in 1..Len(group) |->
                                (IF i = 1 THEN <<>> ELSE <<10>>) \o <<45, 32>> \o group[i].name]),
     steps       |-> merge_steps(group),
     passes      |-> \E i \in 1..Len(group) : group[i].passes,
     in_progress |-> \E i \in 1..Len(group) : group[i].in_progress,
     blocked_by_intervention_id |-> NULL,
     deferred    |-> \E i \in 1..Len(group) : group[i].deferred]

\* the parent record built from one chunk
Parent(group, category) ==
    [id          |-> group[1].id,
     priority    |-> MinPriority(group),
     category    |-> category,
     name        |-> IF Len(group) > 1
                     THEN <<73, 109, 112, 108, 101, 109, 101, 110, 116, 32>>
                              \o FirstWord(group[1].name)
                              \o <<32, 83, 117, 98, 115, 121, 115, 116, 101, 109>>
                     ELSE group[1].name,
     description |-> <<66, 117, 110, 100, 108, 101, 32, 111, 102, 32>>
                         \o Decimal(Len(group))
                         \o <<32, 114, 101, 108, 97, 116, 101, 100, 32, 102, 101, 97,
                              116, 117, 114, 101, 115, 58, 10>>
                         \o Flatten([i \in 1..Len(group) |->
                                (IF i = 1 THEN <<>> ELSE <<10>>) \o <<45, 32>> \o group[i].name]),
     steps       |-> merge_steps(group),
     passes      |-> \A i \in 1..Len(group) : group[i].passes,
     in_progress |-> \E i \in 1..Len(group) : group[i].in_progress,
     blocked_by_intervention_id |-> NULL,
     deferred    |-> \E i \in 1..Len(group) : group[i].deferred]

\* mutant: every chunk starts at the first record of the category
ChunkFromStart(features, factor, i) ==
    SubSeq(features, 1, Min2(i * factor, Len(features)))

\* the i-th chunk (i = 1, 2, ...) of the default chunking: features[i0 : i0 + factor]
Chunk(features, factor, i) ==
    SubSeq(features, (i - 1) * factor + 1, Min2(i * factor, Len(features)))

\* number of iterations of range(0, n, factor)
\* mutant: a trailing chunk shorter than factor is dropped
ChunkCountFloor(n, factor) == n \div factor

ChunkCount(n, factor) == (n + factor - 1) \div factor

\* the category takes the chunking branch of consolidate_category
Chunked(features, category) ==
    /\ Len(features) > 3
    /\ "consolidation_factor" \in DOMAIN get_consolidation_rules(category, Len(features))

\* consolidate_category raises (IndexError of name.split()[0] on a name
\* without any word, at the head of a chunk of more than one record)
category_raises(features, category) ==
    /\ Chunked(features, category)
    /\ LET factor == ChunkFactor(Len(features))
       IN \E i \in 1..ChunkCount(Len(features), factor) :
              LET group == Chunk(features, factor, i)
              IN Len(group) > 1 /\ ~HasWord(group[1].name)

\* mutant: a small category comes back with its blocking references cleared
consolidate_category_clears(features, category) ==
    IF Len(features) <= 3
    THEN [i \in 1..Len(features) |->
             [features[i] EXCEPT !.blocked_by_intervention_id = NULL]]
    ELSE LET rules == get_consolidation_rules(category, Len(features))
         IN IF "consolidation_factor" \in DOMAIN rules
            THEN LET factor == ChunkFactor(Len(features))
                 IN Strict([i \in 1..ChunkCount(Len(features), factor) |->
                               Parent(Chunk(features, factor, i), category)])
            ELSE features

\* FeatureConsolidator.consolidate_category
consolidate_category(features, category) ==
    IF Len(features) <= 3 THEN features
    ELSE LET rules == get_consolidation_rules(category, Len(features))
         IN IF "consolidation_factor" \in DOMAIN rules
            THEN LET factor == ChunkFactor(Len(features))
                 IN Strict([i \in 1..ChunkCount(Len(features), factor) |->
                               Parent(Chunk(features, factor, i), category)])
            ELSE features

\* the keys of by_category, in the order in which the loop over the features
\* inserts them
Categories(features) ==
    LET cat   == Strict([i \in 1..Len(features) |-> features[i].category])
        first == SelectSeq([i \in 1..Len(features) |-> i],
                           LAMBDA i : \A j \in 1..(i - 1) : cat[j] # cat[i])
    IN Strict([k \in 1..Len(first) |-> cat[first[k]]])

\* the category names in sorted() order
SortedCategories(features) ==
    LET cats == Categories(features)
        m    == Len(cats)
        rank == Strict([k \in 1..m |->
                    Cardinality({d \in 1..m : StrLess(cats[d], cats[k])}) + 1])
    IN Strict([r \in 1..m |-> cats[CHOOSE k \in 1..m : rank[k] = r]])

\* by_category[category] of consolidate_all
ByCategory(features, category) == SelectSeq(features, LAMBDA f : f.category = category)

\* consolidate_all raises
consolidate_all_raises(features) ==
    LET cats == SortedCategories(features)
    IN \E k \in 1..Len(cats) : category_raises(ByCategory(features, cats[k]), cats[k])

\* FeatureConsolidator.consolidate_all on the loaded features:
\* the pair (consolidated_all, stats)
consolidate_all(features) ==
    LET cats == SortedCategories(features)
        ins  == Strict([k \in 1..Len(cats) |-> ByCategory(features, cats[k])])
        outs == Strict([k \in 1..Len(cats) |-> consolidate_category(ins[k], cats[k])])
        all  == Flatten(outs)
    IN [consolidated |-> all,
        stats |-> [before |-> Len(features),
                   after  |-> Len(all),
                   by_category |-> [k \in 1..Len(cats) |->
                                       [category |-> cats[k],
                                        before   |-> Len(ins[k]),
                                        after    |-> Len(outs[k])]]]]

\* the bounds asserted by validate
TargetMin == 250

TargetMax == 600

TotalSteps(features) == Sum([i \in 1..Len(features) |-> Len(features[i].steps)])

\* mutant: validate without the assertion on the target range
validate_without_range(orig, cons) == Len(cons) < Len(orig)

\* mutant: validate without the assertion that the count decreased
validate_without_decrease(orig, cons) ==
    Len(cons) >= TargetMin /\ Len(cons) <= TargetMax

\* validate returns normally (both assertions hold)
validate_passes(orig, cons) ==
    /\ Len(cons) < Len(orig)
    /\ Len(cons) >= TargetMin /\ Len(cons) <= TargetMax

-----------------------------------------------------------------------------
(* The stores and the feature lists the model starts from *)

Game == <<71, 97, 109, 101>>

\* the row with identifier id: name "F<id> x", one or two steps, flags that vary
\* with id; shared = TRUE gives every row the same first step string
SeedRow(id, priority, category, shared, blank) ==
    [id          |-> Some(id),
     priority    |-> priority,
     category    |-> category,
     name        |-> IF blank THEN <<32>> ELSE <<70>> \o Digits3(id) \o <<32, 120>>,
     description |-> <<100>>,
     steps       |-> IF id % 5 = 0 THEN NULL
                     ELSE Some(JsonDumps(<< (IF shared THEN <<115>> ELSE <<115>> \o Digits3(id)),
                                            <<116>> \o Digits3(id) >>)),
     passes      |-> IF id % 2 = 0 THEN 1 ELSE 0,
     in_progress |-> IF id % 3 = 0 THEN 1 ELSE 0,
     blocked_by_intervention_id |-> IF id % 4 = 0 THEN Some(id + 1) ELSE NULL,
     deferred    |-> Some(IF id % 7 = 0 THEN 1 ELSE 0)]

\* rows of the generated table, in id order: pad categories "P001", "P002", ...
\* of three rows each, followed by n rows of category cat whose priorities
\* descend with id (so that ORDER BY priority does not follow the id order)
\* and lie above those of the pad categories (so that the order of the
\* category names is not the priority order)
\* blank = TRUE gives the row of lowest priority a name without any word
StoreRows(pad, n, cat, blank) ==
    Strict([i \in 1..(3 * pad + n) |->
        IF i <= 3 * pad
        THEN SeedRow(i, 1000 + i, <<80>> \o Digits3((i + 2) \div 3), TRUE, FALSE)
        ELSE SeedRow(i, 2000 + n + 1 - (i - 3 * pad), cat, TRUE,
                     blank /\ i = 3 * pad + n)])

MkStore(pad, n, cat, blank) ==
    [t \in TableNames |->
        IF t = "features" THEN Table(StoreRows(pad, n, cat, blank), TRUE) ELSE NoTable]

\* the end-to-end scenario of the specification: 100 rows evenly split over
\* the 5 categories "C001" .. "C005", 20 rows each
ScenarioRows ==
    Strict([i \in 1..100 |->
        SeedRow(i, 1000 + i, <<67>> \o Digits3((i + 19) \div 20), TRUE, FALSE)])

ScenarioStore ==
    [t \in TableNames |->
        IF t = "features" THEN Table(ScenarioRows, TRUE) ELSE NoTable]

Stores ==
    {MkStore(pad, n, cat, FALSE) :
        pad \in {0, Pad}, n \in {0, CatN}, cat \in {Game, AudioSystem}}
      \cup {MkStore(0, CatN, Game, TRUE)}
      \cup {ScenarioStore}

\* the loaded records of one category of n records, as consolidate_all passes
\* them to consolidate_category: non-decreasing priority
\* (pattern "flags": passes true, true, false, ... and a blocking reference on
\* every record)
CategoryInput(n, cat, pattern) ==
    Strict([j \in 1..n |->
        LET row == SeedRow(j, 10 + (j \div 2), cat, pattern = "shared",
                           pattern = "blank" /\ j = 1)
        IN from_row(IF pattern = "flags"
                    THEN [row EXCEPT !.passes = IF j % 3 # 0 THEN 1 ELSE 0,
                                     !.blocked_by_intervention_id = Some(100 + j)]
                    ELSE row)])

CatSizes == (0..MaxSmall) \cup BigSizes

CatNames == {Game, AudioSystem, DefaultKey}

Patterns == {"unique", "shared", "blank", "flags"}

NoArgs == [dry_run |-> FALSE, execute |-> FALSE]

NoStats == [before |-> 0, after |-> 0, by_category |-> <<>>]

EmptyStore == [t \in TableNames |-> NoTable]

\* hist.lives: the rows 'features' held before each committed migration
\* hist.failed: validate has failed in some run on this store
\* hist.last: the statistics of the preceding run and the store it ran on,
\* kept while a preview that directly follows a preview is running; NoLast
\* otherwise
NoLast == [preview |-> FALSE, stats |-> NoStats, store |-> EmptyStore]

NoHist == [lives |-> <<>>, last |-> NoLast, failed |-> FALSE]

-----------------------------------------------------------------------------
(* Function-level specification: consolidate_category on bounded inputs *)

CatInit ==
    /\ \E n \in CatSizes, cat \in CatNames, pattern \in Patterns :
          /\ original = CategoryInput(n, cat, pattern)
          /\ cat_arg = cat
    /\ stats = NoStats
    /\ pc = "cat_call"
    /\ consolidated = <<>>
    /\ disk = EmptyStore /\ work = EmptyStore /\ inTxn = FALSE
    /\ args = NoArgs /\ idx = 0 /\ err = "none" /\ report = <<>>
    /\ pre = EmptyStore /\ hist = NoHist

\* consolidate_category returns
CatReturn ==
    /\ pc = "cat_call"
    /\ ~category_raises(original, cat_arg)
    /\ consolidated' = consolidate_category(original, cat_arg)
    /\ pc' = "cat_done"
    /\ UNCHANGED <<disk, work, inTxn, args, original, stats, idx, err, report,
                   cat_arg, pre, hist>>

\* consolidate_category raises IndexError
CatRaise ==
    /\ pc = "cat_call"
    /\ category_raises(original, cat_arg)
    /\ err' = "IndexError"
    /\ pc' = "cat_raised"
    /\ UNCHANGED <<disk, work, inTxn, args, original, consolidated, stats, idx,
                   report, cat_arg, pre, hist>>

CatNext == CatReturn \/ CatRaise

SpecCat == CatInit /\ [][CatNext]_vars

-----------------------------------------------------------------------------
(* main() and execute_migration() against a store *)

\* what the connection reads: its own uncommitted changes inside a transaction
View == IF inTxn THEN work ELSE disk

\* positions of execute_migration at which a statement is about to be executed
MigrationPcs == {"begin", "create", "insert", "drop", "rename_old", "rename_new", "commit"}

\* mutant: every data-definition statement commits at once
ExecDDLCommits(db) ==
    disk' = db /\ work' = db /\ inTxn' = FALSE

\* a data-definition statement (CREATE, DROP, ALTER) that turns the view into
\* db: part of the open transaction, or committed at once in autocommit mode
ExecDDL(db) ==
    IF inTxn
    THEN work' = db /\ UNCHANGED <<disk, inTxn>>
    ELSE disk' = db /\ work' = db /\ UNCHANGED inTxn

\* mutant: every INSERT is committed at once
ExecDMLCommits(db) ==
    disk' = db /\ work' = db /\ inTxn' = FALSE

\* an INSERT that turns the view into db: outside a transaction the sqlite3
\* module (isolation_level "") opens one implicitly before the statement
ExecDML(db) ==
    /\ work' = db
    /\ inTxn' = TRUE
    /\ UNCHANGED disk

Init ==
    /\ disk \in Stores
    /\ work = disk
    /\ inTxn = FALSE
    /\ pc = "idle"
    /\ args = NoArgs
    /\ original = <<>>
    /\ consolidated = <<>>
    /\ stats = NoStats
    /\ idx = 0
    /\ err = "none"
    /\ report = <<>>
    /\ cat_arg = <<>>
    /\ pre = disk
    /\ hist = NoHist

\* the run that has ended was a preview (--dry-run without --execute) that
\* got as far as its statistics
PreviewReported ==
    /\ pc = "exited"
    /\ args.dry_run /\ ~args.execute
    /\ err \in {"none", "AssertionError", "ZeroDivisionError"}

\* main() lines 256-272: parse the flags, print the usage and exit(1) when
\* neither flag is given, else connect and print the header
Start ==
    /\ pc \in {"idle", "exited"}
    /\ \E dry \in BOOLEAN, exe \in BOOLEAN :
          /\ args' = [dry_run |-> dry, execute |-> exe]
          /\ IF ~dry /\ ~exe
             THEN /\ pc' = "exited"
                  /\ err' = "SystemExit"
                  /\ report' = << <<"usage">> >>
             ELSE /\ pc' = "load"
                  /\ err' = "none"
                  /\ report' = << <<"mode", IF dry THEN "DRY RUN" ELSE "EXECUTE">> >>
          /\ hist' = [hist EXCEPT !.last =
                          IF PreviewReported /\ dry /\ ~exe
                          THEN [preview |-> TRUE, stats |-> stats, store |-> pre]
                          ELSE NoLast]
    /\ original' = <<>>
    /\ consolidated' = <<>>
    /\ stats' = NoStats
    /\ idx' = 0
    /\ pre' = disk
    /\ UNCHANGED <<disk, work, inTxn, cat_arg>>

\* main() line 275
Load ==
    /\ pc = "load"
    /\ original' = get_all_features(View)
    /\ pc' = "consolidate"
    /\ UNCHANGED <<disk, work, inTxn, args, consolidated, stats, idx, err, report,
                   cat_arg, pre, hist>>

\* main() line 276: consolidate_all reads the table again and consolidates
ConsolidateAll ==
    /\ pc = "consolidate"
    /\ LET features == get_all_features(View)
       IN IF consolidate_all_raises(features)
          THEN /\ err' = "IndexError"
               /\ pc' = "exited"
               /\ UNCHANGED <<consolidated, stats>>
          ELSE LET r == consolidate_all(features)
               IN /\ consolidated' = r.consolidated
                  /\ stats' = r.stats
                  /\ pc' = "stats"
                  /\ UNCHANGED err
    /\ UNCHANGED <<disk, work, inTxn, args, original, idx, report, cat_arg, pre, hist>>

\* main() lines 278-285: the totals, the overall reduction (a division by
\* stats['before']) and one row for each of the first 10 categories
PrintStats ==
    /\ pc = "stats"
    /\ IF stats.before = 0
       THEN /\ report' = Append(report, <<"totals", stats.before, stats.after>>)
            /\ err' = "ZeroDivisionError"
            /\ pc' = "exited"
       ELSE /\ report' = report \o
                  << <<"totals", stats.before, stats.after>>,
                     <<"reduction", stats.before - stats.after, stats.before>>,
                     <<"by_category",
                       SubSeq(stats.by_category, 1, Min2(10, Len(stats.by_category)))>> >>
            /\ pc' = "validate"
            /\ UNCHANGED err
    /\ UNCHANGED <<disk, work, inTxn, args, original, consolidated, stats, idx,
                   cat_arg, pre, hist>>

\* main() line 288: validate(original, consolidated)
Validate ==
    /\ pc = "validate"
    /\ LET orig_steps == TotalSteps(original)
           cons_steps == TotalSteps(consolidated)
           header == <<"validation", Len(original), Len(consolidated),
                       orig_steps, cons_steps>>
       IN IF validate_passes(original, consolidated)
          THEN /\ report' = report \o
                     << header,
                        (IF cons_steps < orig_steps
                         THEN <<"steps_warning">>
                         ELSE <<"steps_preserved", cons_steps - orig_steps>>),
                        <<"validation_passed">> >>
               /\ pc' = "dispatch"
               /\ UNCHANGED <<err, hist>>
          ELSE /\ report' = Append(report, header)
               /\ err' = "AssertionError"
               /\ pc' = "exited"
               /\ hist' = [hist EXCEPT !.failed = TRUE]
    /\ UNCHANGED <<disk, work, inTxn, args, original, consolidated, stats, idx,
                   cat_arg, pre>>

\* mutant: the migration is executed in every mode
DispatchAlwaysExecutes ==
    /\ pc = "dispatch"
    /\ report' = Append(report, <<"executing">>)
    /\ pc' = "begin"
    /\ pre' = disk
    /\ UNCHANGED <<disk, work, inTxn, args, original, consolidated, stats, idx, err,
                   cat_arg, hist>>

\* main() lines 291-296: call execute_migration when --execute was given, else
\* print the dry-run note and close the connection
Dispatch ==
    /\ pc = "dispatch"
    /\ IF args.execute
       THEN /\ report' = Append(report, <<"executing">>)
            /\ pc' = "begin"
            /\ pre' = disk
       ELSE /\ report' = Append(report, <<"dry_run_note">>)
            /\ pc' = "exited"
            /\ UNCHANGED pre
    /\ UNCHANGED <<disk, work, inTxn, args, original, consolidated, stats, idx, err,
                   cat_arg, hist>>

\* mutant: the migration does not open a transaction
BeginOmitted ==
    /\ pc = "begin"
    /\ pc' = "create"
    /\ UNCHANGED <<disk, work, inTxn, args, original, consolidated, stats, idx, err,
                   report, cat_arg, pre, hist>>

\* line 216: BEGIN TRANSACTION
Begin ==
    /\ pc = "begin"
    /\ ~inTxn
    /\ inTxn' = TRUE
    /\ work' = disk
    /\ pc' = "create"
    /\ UNCHANGED <<disk, args, original, consolidated, stats, idx, err, report,
                   cat_arg, pre, hist>>

\* mutant: the INSERT loop is skipped after the staging table is created
CreateStagingUnpopulated ==
    /\ pc = "create"
    /\ View["features"].exists
    /\ ~View["features_consolidated"].exists
    /\ ExecDDL([View EXCEPT !["features_consolidated"] = Table(<<>>, FALSE)])
    /\ idx' = 0
    /\ pc' = "drop"
    /\ UNCHANGED <<args, original, consolidated, stats, err, report, cat_arg, pre, hist>>

\* lines 219-222: CREATE TABLE features_consolidated AS SELECT * FROM features
\* WHERE 1=0: the columns of features, none of its constraints, no rows
CreateStaging ==
    /\ pc = "create"
    /\ View["features"].exists
    /\ ~View["features_consolidated"].exists
    /\ ExecDDL([View EXCEPT !["features_consolidated"] = Table(<<>>, FALSE)])
    /\ idx' = 0
    /\ pc' = IF Len(consolidated) = 0 THEN "drop" ELSE "insert"
    /\ UNCHANGED <<args, original, consolidated, stats, err, report, cat_arg, pre, hist>>

\* mutant: the loop inserts the first record on every iteration
InsertFirstRow ==
    /\ pc = "insert"
    /\ idx < Len(consolidated)
    /\ View["features_consolidated"].exists
    /\ ExecDML([View EXCEPT !["features_consolidated"].rows =
                                Append(@, ToRow(consolidated[1]))])
    /\ idx' = idx + 1
    /\ pc' = IF idx + 1 = Len(consolidated) THEN "drop" ELSE "insert"
    /\ UNCHANGED <<args, original, consolidated, stats, err, report, cat_arg, pre, hist>>

\* lines 225-234: one INSERT of the loop; the loop ends after the last record
InsertRow ==
    /\ pc = "insert"
    /\ idx < Len(consolidated)
    /\ View["features_consolidated"].exists
    /\ ExecDML([View EXCEPT !["features_consolidated"].rows =
                                Append(@, ToRow(consolidated[idx + 1]))])
    /\ idx' = idx + 1
    /\ pc' = IF idx + 1 = Len(consolidated) THEN "drop" ELSE "insert"
    /\ UNCHANGED <<args, original, consolidated, stats, err, report, cat_arg, pre, hist>>

\* line 237: DROP TABLE IF EXISTS features_old
DropOld ==
    /\ pc = "drop"
    /\ ExecDDL([View EXCEPT !["features_old"] = NoTable])
    /\ pc' = "rename_old"
    /\ UNCHANGED <<args, original, consolidated, stats, idx, err, report, cat_arg,
                   pre, hist>>

\* mutant: the live table is dropped instead of renamed
RenameOldDrops ==
    /\ pc = "rename_old"
    /\ View["features"].exists
    /\ ExecDDL([View EXCEPT !["features"] = NoTable])
    /\ pc' = "rename_new"
    /\ UNCHANGED <<args, original, consolidated, stats, idx, err, report, cat_arg,
                   pre, hist>>

\* line 238: ALTER TABLE features RENAME TO features_old
RenameOld ==
    /\ pc = "rename_old"
    /\ View["features"].exists
    /\ ~View["features_old"].exists
    /\ ExecDDL([View EXCEPT !["features_old"] = View["features"],
                            !["features"] = NoTable])
    /\ pc' = "rename_new"
    /\ UNCHANGED <<args, original, consolidated, stats, idx, err, report, cat_arg,
                   pre, hist>>

\* line 239: ALTER TABLE features_consolidated RENAME TO features
RenameNew ==
    /\ pc = "rename_new"
    /\ View["features_consolidated"].exists
    /\ ~View["features"].exists
    /\ ExecDDL([View EXCEPT !["features"] = View["features_consolidated"],
                            !["features_consolidated"] = NoTable])
    /\ pc' = "commit"
    /\ UNCHANGED <<args, original, consolidated, stats, idx, err, report, cat_arg,
                   pre, hist>>

\* lines 241-242: COMMIT makes the transaction's changes durable; the call returns
Commit ==
    /\ pc = "commit"
    /\ disk' = View
    /\ work' = View
    /\ inTxn' = FALSE
    /\ report' = Append(report, <<"migration_successful">>)
    /\ hist' = [hist EXCEPT !.lives = Append(@, disk["features"].rows)]
    /\ pc' = "migrated"
    /\ UNCHANGED <<args, original, consolidated, stats, idx, err, cat_arg, pre>>

\* line 296: consolidator.close() after a successful migration
Close ==
    /\ pc = "migrated"
    /\ pc' = "exited"
    /\ UNCHANGED <<disk, work, inTxn, args, original, consolidated, stats, idx, err,
                   report, cat_arg, pre, hist>>

\* lines 244-247: the statement at the current position raises.  The handler
\* executes ROLLBACK, prints the failure and re-raises; main() does not catch
\* it.  When no transaction is open any more (BEGIN itself failed, or SQLite
\* rolled the transaction back on its own for this error) the ROLLBACK raises
\* in turn and the message is not printed.
StatementFails ==
    /\ pc \in MigrationPcs
    /\ \E auto_rollback \in BOOLEAN :
          IF inTxn /\ ~auto_rollback
          THEN /\ report' = Append(report, <<"migration_failed", pc>>)
               /\ err' = "StatementError"
          ELSE /\ report' = Append(report, <<"rollback_failed", pc>>)
               /\ err' = "RollbackError"
    /\ work' = disk
    /\ inTxn' = FALSE
    /\ pc' = "exited"
    /\ UNCHANGED <<disk, args, original, consolidated, stats, idx, cat_arg, pre, hist>>

Next ==
    \/ Start
    \/ Load
    \/ ConsolidateAll
    \/ PrintStats
    \/ Validate
    \/ Dispatch
    \/ Begin
    \/ CreateStaging
    \/ InsertRow
    \/ DropOld
    \/ RenameOld
    \/ RenameNew
    \/ Commit
    \/ Close
    \/ StatementFails

Spec == Init /\ [][Next]_vars

-----------------------------------------------------------------------------
(* Properties of execute_migration and main()  (specification Spec) *)

\* the current run ended because a statement of execute_migration raised
MigrationFailed == pc = "exited" /\ err \in {"StatementError", "RollbackError"}

\* the last report event is ev
LastReport(ev) == Len(report) > 0 /\ report[Len(report)] = ev

\* the position execute_migration or a later step of the run is at
InMigration == pc \in MigrationPcs \cup {"migrated"}

\* C1: when execute_migration fails at any statement, the live table
\* 'features' holds, after the call has raised, exactly the rows (ids,
\* content, order) it held immediately before the call.
C1_FailedMigrationKeepsLiveTable ==
    MigrationFailed => disk["features"] = pre["features"]

\* a migration that failed between the two RENAMEs, after every INSERT
C1_Witness ==
    /\ MigrationFailed
    /\ LastReport(<<"migration_failed", "rename_new">>)
    /\ idx = Len(consolidated) /\ idx > 0

\* C2: after a failed execute_migration the set of tables equals the set
\* before the call: no staging table, 'features' not renamed, an earlier
\* backup 'features_old' still there with its rows.
C2_FailedMigrationLeavesNoPartialTable ==
    MigrationFailed =>
        /\ disk = pre
        /\ ~disk["features_consolidated"].exists
        /\ ~inTxn /\ work = disk

\* a migration that failed after DROP TABLE IF EXISTS features_old on a store
\* that held a backup of an earlier run
C2_Witness ==
    /\ MigrationFailed
    /\ LastReport(<<"migration_failed", "rename_old">>)
    /\ pre["features_old"].exists
    /\ Len(pre["features_old"].rows) > 0

\* the assertions of validate hold of the lists of the current run
RunValid ==
    /\ Len(consolidated) < Len(original)
    /\ Len(consolidated) >= 250
    /\ Len(consolidated) <= 600

\* C6: execute_migration is entered only after validate has passed, and a run
\* whose consolidated list violates a validation invariant never writes.
C6_ValidateBeforeMigration ==
    /\ InMigration =>
          (RunValid /\ \E i \in 1..Len(report) : report[i] = <<"validation_passed">>)
    /\ (pc # "idle" /\ ~RunValid) => (disk = pre /\ work = disk /\ ~inTxn)

\* an --execute run stopped by validate on a non-empty consolidated list
C6_Witness ==
    /\ pc = "exited" /\ err = "AssertionError"
    /\ args.execute /\ ~args.dry_run
    /\ Len(consolidated) > 0 /\ ~RunValid

\* C7 (as claimed): a run started with --dry-run never enters
\* execute_migration, whatever other flags are given.
C7_DryRunNeverMigrates ==
    args.dry_run => ~InMigration

\* C8: after a successful execute_migration 'features_old' holds exactly the
\* rows 'features' held before the call and 'features' holds exactly the
\* consolidated records, in the order of the list.
C8_BackupRetainedAfterCommit ==
    pc = "migrated" =>
        /\ disk["features_old"].exists
        /\ disk["features_old"].rows = pre["features"].rows
        /\ disk["features"].exists
        /\ Len(disk["features"].rows) = Len(consolidated)
        /\ \A i \in 1..Len(consolidated) : disk["features"].rows[i] = ToRow(consolidated[i])
        /\ ~disk["features_consolidated"].exists

\* a committed migration of merged parents
C8_Witness ==
    /\ pc = "migrated"
    /\ Len(consolidated) < Len(pre["features"].rows)
    /\ \E i \in 1..Len(consolidated) : Len(consolidated[i].steps) > 2

\* the store is at rest (no run in progress)
AtRest == pc \in {"idle", "exited"}

\* C9 (as claimed): after any number of successful execute runs, the rows of
\* every table that once was the live 'features' table are still in the store
\* under a backup name.
C9_EveryFormerTableRetained ==
    AtRest =>
        \A k \in 1..Len(hist.lives) :
            \E t \in TableNames \ {"features"} :
                disk[t].exists /\ disk[t].rows = hist.lives[k]

\* C9 (amended): the store keeps one backup: after a successful execute run
\* 'features_old' holds the rows of the table that was live right before the
\* latest successful run.
C9_LatestFormerTableRetained ==
    Len(hist.lives) > 0 =>
        /\ disk["features_old"].exists
        /\ disk["features_old"].rows = hist.lives[Len(hist.lives)]

\* two successful execute runs on the same store
C9_Witness ==
    /\ AtRest
    /\ Len(hist.lives) = 2
    /\ hist.lives[1] # hist.lives[2]

-----------------------------------------------------------------------------
(* Properties of consolidate_category  (specification SpecCat) *)

\* the step strings of the input records
InputSteps == UNION {Range(original[i].steps) : i \in 1..Len(original)}

\* the output records with a step entry that contains s
Holders(s) ==
    {k \in 1..Len(consolidated) :
        \E e \in 1..Len(consolidated[k].steps) : Contains(consolidated[k].steps[e], s)}

\* C3 (as claimed): for 4 to 200 records, every input step string is
\* contained in a step entry of exactly one output record.
C3_StepInExactlyOneRecord ==
    (pc = "cat_done" /\ Len(original) >= 4 /\ Len(original) <= 200) =>
        \A s \in InputSteps : Cardinality(Holders(s)) = 1

\* C3 (amended): for 4 to 200 records, every input step string is contained
\* in a step entry of at least one output record, namely of the output record
\* built from the chunk of the input record that has the step.
C3_StepInSomeRecord ==
    (pc = "cat_done" /\ Len(original) >= 4 /\ Len(original) <= 200) =>
        /\ \A s \in InputSteps : Holders(s) # {}
        /\ Chunked(original, cat_arg) =>
              \A i \in 1..Len(original) :
                  \A s \in Range(original[i].steps) :
                      ((i - 1) \div (IF Len(original) > 50 THEN 4 ELSE 3)) + 1 \in Holders(s)

\* a merged category of 200 records whose records share a step string
C3_Witness ==
    /\ pc = "cat_done"
    /\ Len(original) = 200
    /\ Len(consolidated) = 50
    /\ \E i, j \in 1..Len(original) :
          i # j /\ Range(original[i].steps) \cap Range(original[j].steps) # {}

\* C4 (as claimed): every category of more than 3 records, whatever its name,
\* comes back with strictly fewer records.
C4_MoreThanThreeIsReduced ==
    (pc = "cat_done" /\ Len(original) > 3) => Len(consolidated) < Len(original)

\* C5 (as claimed): for the 'Audio System' rule the output has one parent per
\* listed group, named after the group, with the merged fields of the
\* records features[start:end].
C5_AudioGroupsApplied ==
    (pc = "cat_done" /\ cat_arg = AudioSystem /\ Len(original) = 100) =>
        /\ Len(consolidated) = Len(AudioGroups)
        /\ \A g \in 1..Len(AudioGroups) :
              LET group == SubSeq(original, AudioGroups[g].start + 1, AudioGroups[g].end)
              IN /\ consolidated[g].name = AudioGroups[g].name
                 /\ consolidated[g].steps = merge_steps(group)
                 /\ consolidated[g].passes = (\A i \in 1..Len(group) : group[i].passes)
                 /\ consolidated[g].in_progress = (\E i \in 1..Len(group) : group[i].in_progress)
                 /\ consolidated[g].deferred = (\E i \in 1..Len(group) : group[i].deferred)

\* C10: without a special-case partition, a category of more than 50 records
\* comes back as ceil(n/4) records and one of 4 to 50 records as ceil(n/3)
\* records; 51 records yield 13 and 50 records yield 17.
C10_ChunkSizeSelection ==
    (pc = "cat_done" /\ cat_arg # AudioSystem /\ Len(original) >= 4) =>
        LET n == Len(original)
            m == Len(consolidated)
        IN /\ n > 50 => (4 * (m - 1) < n /\ n <= 4 * m)
           /\ n <= 50 => (3 * (m - 1) < n /\ n <= 3 * m)
           /\ n = 51 => m = 13
           /\ n = 50 => m = 17

\* 50 records of an ordinary category consolidated into 17
C10_Witness ==
    /\ pc = "cat_done"
    /\ cat_arg = Game
    /\ Len(original) = 50
    /\ Len(consolidated) = 17

\* C11: a category of 3 or fewer records (0 included) comes back as the
\* identical sequence: same count, same order, every field of every record
\* unchanged.
C11_SmallCategoryUnchanged ==
    (pc = "cat_done" /\ Len(original) <= 3) =>
        /\ Len(consolidated) = Len(original)
        /\ \A i \in 1..Len(original) : consolidated[i] = original[i]

\* three records of an ordinary category, with steps and flags set
C11_Witness ==
    /\ pc = "cat_done"
    /\ cat_arg = Game
    /\ Len(original) = 3
    /\ Len(consolidated) = 3
    /\ \E i \in 1..3 : Len(original[i].steps) = 2
    /\ \E i \in 1..3 : original[i].in_progress
    /\ \A i \in 1..3 : original[i].blocked_by_intervention_id # NULL

\* the category of the call was merged by the default chunking
Merged == pc = "cat_done" /\ Len(original) > 3 /\ cat_arg # AudioSystem

\* index in `original' of the first and of the last child of parent k
FirstChild(k) == (k - 1) * (IF Len(original) > 50 THEN 4 ELSE 3) + 1

LastChild(k) == Min2(k * (IF Len(original) > 50 THEN 4 ELSE 3), Len(original))

\* C12: for every merged chunk the parent's passes is the AND of the
\* children's passes, its in_progress the OR of their in_progress and its
\* deferred the OR of their deferred.
C12_StatusAggregation ==
    Merged =>
        \A k \in 1..Len(consolidated) :
            LET children == FirstChild(k)..LastChild(k)
            IN /\ consolidated[k].passes = (\A i \in children : original[i].passes)
               /\ consolidated[k].in_progress = (\E i \in children : original[i].in_progress)
               /\ consolidated[k].deferred = (\E i \in children : original[i].deferred)

\* a chunk with passes true, true, false and in_progress false, false, true,
\* next to a chunk whose children all pass
C12_Witness ==
    /\ Merged
    /\ Len(original) = 4
    /\ <<original[1].passes, original[2].passes, original[3].passes>> = <<TRUE, TRUE, FALSE>>
    /\ <<original[1].in_progress, original[2].in_progress, original[3].in_progress>>
           = <<FALSE, FALSE, TRUE>>
    /\ ~consolidated[1].passes /\ consolidated[1].in_progress
    /\ consolidated[2].passes

\* number of step entries of parent k that precede the block of the child at
\* index i of `original'
BlockOffset(k, i) ==
    Sum([j \in 1..(i - FirstChild(k)) |-> 1 + Len(original[FirstChild(k) + j - 1].steps)])

\* C20: in every parent's steps the children's blocks follow each other in
\* chunk order; a block is the child's marker line followed by the child's
\* steps in their original order; blocks are not interleaved.
C20_StepOrderPreserved ==
    Merged =>
        \A k \in 1..Len(consolidated) :
            LET steps == consolidated[k].steps
            IN /\ Len(steps) = BlockOffset(k, LastChild(k) + 1)
               /\ \A i \in FirstChild(k)..LastChild(k) :
                     LET off == BlockOffset(k, i)
                     IN /\ steps[off + 1] =
                              <<91, (IF original[i].passes THEN 10003 ELSE 9675), 93, 32>>
                                  \o original[i].name
                        /\ \A t \in 1..Len(original[i].steps) :
                              steps[off + 1 + t] =
                                  <<32, 32, 32, 32, 45, 32>> \o original[i].steps[t]

\* a parent of three children, two of them with two steps each
C20_Witness ==
    /\ Merged
    /\ Len(original) = 13
    /\ Len(consolidated[1].steps) = 9
    /\ Len(original[1].steps) = 2 /\ Len(original[2].steps) = 2
    /\ original[1].steps # original[2].steps

-----------------------------------------------------------------------------
(* Further properties of main() and execute_migration()  (specification Spec) *)

\* the current run is a preview: --dry-run without --execute
Preview == args.dry_run /\ ~args.execute

\* the current run has computed its statistics
StatsComputed ==
    \/ pc \in {"stats", "validate", "dispatch"}
    \/ pc = "exited" /\ err \in {"none", "AssertionError", "ZeroDivisionError"}

\* C15: a preview leaves the tables and rows of the store as they were, and a
\* preview that follows a preview of the same store reports the same
\* statistics (totals and every per-category before/after, of which the
\* reduction is computed).
C15_PreviewIdempotent ==
    Preview =>
        /\ disk = pre /\ ~inTxn /\ work = disk
        /\ (StatsComputed /\ hist.last.preview) =>
              /\ hist.last.store = disk
              /\ stats = hist.last.stats

\* the second of two previews of a store of more than 10 categories
C15_Witness ==
    /\ Preview
    /\ pc = "exited" /\ err = "none"
    /\ hist.last.preview
    /\ stats = hist.last.stats
    /\ stats.before > stats.after
    /\ Len(stats.by_category) > 10

\* the rows execute_migration inserts, in insertion order
ConsolidatedRows == Strict([i \in 1..Len(consolidated) |-> ToRow(consolidated[i])])

\* C16: at every step of execute_migration the committed store, which is what
\* any other connection reads, has a table 'features' holding either exactly
\* the rows it had before the migration or exactly the consolidated rows, and
\* no staging table; before COMMIT the committed store is the one before the
\* migration.
C16_ReaderSeesOldOrNew ==
    (pc \in MigrationPcs \cup {"migrated"}) =>
        /\ disk["features"].exists
        /\ \/ disk["features"].rows = pre["features"].rows
           \/ disk["features"].rows = ConsolidatedRows
        /\ ~disk["features_consolidated"].exists
        /\ (pc \in MigrationPcs) => disk = pre
        /\ (pc = "migrated") => disk["features"].rows = ConsolidatedRows

\* between the two RENAMEs: the connection's own view has no 'features', the
\* committed store still has the old one
C16_Witness ==
    /\ pc = "rename_new"
    /\ inTxn
    /\ ~work["features"].exists
    /\ work["features_consolidated"].exists
    /\ Len(work["features_consolidated"].rows) = Len(consolidated)
    /\ disk["features"].exists
    /\ Len(disk["features"].rows) > Len(consolidated)

\* the ids of a sequence of records or rows
Ids(s) == {s[i].id : i \in 1..Len(s)}

DistinctIds(s) == Cardinality(Ids(s)) = Len(s)

\* C19: when the ids of the loaded records are pairwise distinct, the ids of
\* the records consolidate_all returned are pairwise distinct and are ids of
\* loaded records, and the table the migration committed has exactly those
\* ids, one row each.
C19_IdsStayUnique ==
    DistinctIds(original) =>
        /\ DistinctIds(consolidated)
        /\ Ids(consolidated) \subseteq Ids(original)
        /\ (pc = "migrated") =>
              /\ DistinctIds(disk["features"].rows)
              /\ Ids(disk["features"].rows) = Ids(consolidated)

\* a committed migration that merged records
C19_Witness ==
    /\ pc = "migrated"
    /\ DistinctIds(original)
    /\ Len(consolidated) < Len(original)
    /\ Len(disk["features"].rows) = Len(consolidated)
    /\ \E i \in 1..Len(original) : original[i].id \notin Ids(consolidated)

\* validate raised in the current run
ValidateFailed == pc = "exited" /\ err = "AssertionError"

\* validate returned in the current run and nothing has run since
ValidateReturned == pc = "dispatch"

\* bands a caller may ask for: the default one and one that admits small stores
RequestedBands ==
    {[target_min |-> TargetMin, target_max |-> TargetMax],
     [target_min |-> 1,         target_max |-> TargetMax]}

\* C13 (as claimed): whatever band target_min..target_max the invocation asks
\* for, validate fails exactly when the consolidated count is not below the
\* original count or lies outside that band; the step totals play no part.
C13_ValidateFailsExactlyOutsideBand ==
    \A band \in RequestedBands :
        (ValidateFailed \/ ValidateReturned) =>
            (ValidateFailed <=>
                ~ /\ Len(consolidated) < Len(original)
                  /\ band.target_min <= Len(consolidated)
                  /\ Len(consolidated) <= band.target_max)

\* C14 (as claimed): an --execute run on the store of 100 records in 5
\* categories of 20 ends with 35 records in 'features'.
C14_ScenarioEndsWith35 ==
    (pc = "exited" /\ args.execute /\ pre["features"].rows = ScenarioRows) =>
        Len(disk["features"].rows) = 35

\* a statement of execute_migration raised in the current run
FailureInMigration ==
    /\ pc = "exited"
    /\ \E i \in 1..Len(report) :
          report[i][1] \in {"migration_failed", "rollback_failed"}

\* C17 (as claimed): a failure inside execute_migration is rolled back and
\* reaches the caller as a MigrationFailedError, never as success.
C17_FailureSurfacesAsMigrationFailedError ==
    FailureInMigration =>
        /\ err = "MigrationFailedError"
        /\ ~inTxn /\ work = disk
        /\ \A i \in 1..Len(report) : report[i] # <<"migration_successful">>

\* a preview or execute run has ended (the usage exit is neither)
RunEnded == pc = "exited" /\ (args.dry_run \/ args.execute)

\* the current run has printed an event of this kind
Reported(kind) == \E i \in 1..Len(report) : report[i][1] = kind

\* C18 (as claimed): every preview or execute run reports the totals, the
\* overall reduction, one row for every category and a validation verdict
\* (the success line, or the failed assertion).
C18_RunReportsEverything ==
    RunEnded =>
        /\ Reported("totals")
        /\ Reported("reduction")
        /\ \E i \in 1..Len(report) :
              /\ report[i][1] = "by_category"
              /\ Len(report[i][2]) = Len(stats.by_category)
        /\ Reported("validation_passed") \/ err = "AssertionError"

\* the state of the commit state machine the current run is in: Idle on entry
\* to execute_migration, Staging while the staging table is created and
\* populated, Swapping from the first RENAME to COMMIT, Committed after COMMIT,
\* Aborted after the except handler; None outside execute_migration
Phase ==
    IF pc = "begin" THEN "Idle"
    ELSE IF pc \in {"create", "insert", "drop"} THEN "Staging"
    ELSE IF pc \in {"rename_old", "rename_new", "commit"} THEN "Swapping"
    ELSE IF pc = "migrated" \/ (pc = "exited" /\ Reported("migration_successful"))
         THEN "Committed"
    ELSE IF FailureInMigration THEN "Aborted"
    ELSE "None"

\* one step of the commit state machine
PhaseStep ==
    Phase' # Phase =>
        \/ Phase = "None" /\ Phase' = "Idle"
        \/ Phase = "Idle" /\ Phase' \in {"Staging", "Aborted"}
        \/ /\ Phase = "Staging" /\ Phase' = "Swapping"
           /\ View["features_consolidated"].exists
           /\ View["features_consolidated"].rows = ConsolidatedRows
        \/ Phase = "Staging" /\ Phase' = "Aborted"
        \/ /\ Phase = "Swapping" /\ Phase' = "Committed"
           /\ disk'["features"].rows = ConsolidatedRows
           /\ disk'["features_old"].exists
           /\ disk'["features_old"].rows = pre["features"].rows
           /\ ~disk'["features_consolidated"].exists
        \/ Phase = "Swapping" /\ Phase' = "Aborted"
        \/ Phase \in {"Committed", "Aborted"} /\ Phase' = "None"

\* C21: execute_migration moves Idle -> Staging -> Swapping -> Committed; it
\* leaves Staging for Swapping only with every consolidated record in the
\* staging table, reaches Committed only with both renames done, goes from
\* Staging or Swapping to Aborted on a failure, and a run that is Committed or
\* Aborted stays so until the next run starts (no run reports both).
C21_CommitStateMachine ==
    /\ [][PhaseStep]_vars
    /\ [](~(Reported("migration_successful") /\ FailureInMigration))
    /\ []((pc \in {"drop", "rename_old"}) =>
             View["features_consolidated"].rows = ConsolidatedRows)

\* a run that went through every state up to Committed
C21_Witness ==
    /\ pc = "migrated"
    /\ Phase = "Committed"
    /\ idx = Len(consolidated) /\ idx > 0
    /\ disk["features_old"].exists
    /\ Len(disk["features"].rows) = idx

-----------------------------------------------------------------------------
(* Further properties of consolidate_category  (specification SpecCat) *)

\* the names of the children of a parent, read off its steps: the marker
\* lines "[x] name" (every other step starts with the four-space prefix)
ChildNames(parent) ==
    LET markers == SelectSeq(parent.steps, LAMBDA s : Len(s) > 4 /\ s[1] = 91)
    IN  Strict([i \in 1..Len(markers) |-> SubSeq(markers[i], 5, Len(markers[i]))])

\* C22: the children of the parents, taken parent after parent, are exactly
\* the input records in their order (consecutive chunks, none skipped, none
\* duplicated); every parent but the last has 'factor' children and the last
\* has between 1 and 'factor'.
C22_ChunksPartitionCategory ==
    Merged =>
        LET factor == ChunkFactor(Len(original))
            kids   == Strict([k \in 1..Len(consolidated) |-> ChildNames(consolidated[k])])
            m      == Len(consolidated)
        IN  /\ m >= 1
            /\ Flatten(kids) = [i \in 1..Len(original) |-> original[i].name]
            /\ \A k \in 1..(m - 1) : Len(kids[k]) = factor
            /\ Len(kids[m]) >= 1 /\ Len(kids[m]) <= factor

\* 51 records in chunks of 4: twelve full chunks and a last chunk of 3
C22_Witness ==
    /\ Merged
    /\ Len(original) = 51
    /\ Len(consolidated) = 13
    /\ Len(ChildNames(consolidated[12])) = 4
    /\ Len(ChildNames(consolidated[13])) = 3

\* C23: for every merged chunk the parent has the id of the first child, the
\* smallest priority of the children, the category of the children and no
\* blocking reference, whatever the children's references are.
C23_ParentIdentityFields ==
    Merged =>
        \A k \in 1..Len(consolidated) :
            LET children == FirstChild(k)..LastChild(k)
                parent   == consolidated[k]
            IN /\ parent.id = original[FirstChild(k)].id
               /\ \E i \in children : parent.priority = original[i].priority
               /\ \A i \in children : parent.priority <= original[i].priority
               /\ \A i \in children : parent.category = original[i].category
               /\ parent.blocked_by_intervention_id = NULL

\* a chunk of three blocked children of different priorities
C23_Witness ==
    /\ Merged
    /\ Len(original) = 7
    /\ original[1].priority < original[3].priority
    /\ consolidated[1].priority = original[1].priority
    /\ \A i \in 1..3 : original[i].blocked_by_intervention_id # NULL
    /\ consolidated[1].blocked_by_intervention_id = NULL
    /\ consolidated[3].id = original[7].id

\* "Implement ", " Subsystem", "Bundle of 1 related features:\n- "
ImplementText == <<73, 109, 112, 108, 101, 109, 101, 110, 116, 32>>

SubsystemText == <<32, 83, 117, 98, 115, 121, 115, 116, 101, 109>>

BundleOfOneText ==
    <<66, 117, 110, 100, 108, 101, 32, 111, 102, 32, 49, 32, 114, 101, 108, 97, 116,
      101, 100, 32, 102, 101, 97, 116, 117, 114, 101, 115, 58, 10, 45, 32>>

\* w is the first word of name: the first maximal run of non-blank characters
IsFirstWord(w, name) ==
    \E a \in 1..Len(name) : \E b \in a..Len(name) :
        /\ \A i \in 1..(a - 1) : name[i] \in Whitespace
        /\ \A i \in a..b : name[i] \notin Whitespace
        /\ b = Len(name) \/ name[b + 1] \in Whitespace
        /\ w = SubSeq(name, a, b)

\* C26: a parent of more than one child is named "Implement <first word of
\* the first child's name> Subsystem"; a parent of exactly one child keeps the
\* child's name, id, priority and flags, its steps are the marker line
\* followed by the prefixed steps of the child, and its description is the
\* generated bundle text.
C26_NamingRule ==
    Merged =>
        \A k \in 1..Len(consolidated) :
            LET first  == original[FirstChild(k)]
                parent == consolidated[k]
            IN IF LastChild(k) > FirstChild(k)
               THEN \E w \in {SubSeq(parent.name, 11, Max2(10, Len(parent.name) - 10))} :
                       /\ parent.name = ImplementText \o w \o SubsystemText
                       /\ IsFirstWord(w, first.name)
               ELSE /\ parent.name = first.name
                    /\ parent.id = first.id
                    /\ parent.priority = first.priority
                    /\ parent.passes = first.passes
                    /\ parent.in_progress = first.in_progress
                    /\ parent.deferred = first.deferred
                    /\ parent.steps =
                          << <<91, (IF first.passes THEN 10003 ELSE 9675), 93, 32>>
                                 \o first.name >>
                          \o [t \in 1..Len(first.steps) |->
                                 <<32, 32, 32, 32, 45, 32>> \o first.steps[t]]
                    /\ parent.description = BundleOfOneText \o first.name

\* four records: a parent of three children and a parent of one child that
\* has steps and a description of its own
C26_Witness ==
    /\ Merged
    /\ Len(original) = 4
    /\ consolidated[1].name = ImplementText \o <<70, 48, 48, 49>> \o SubsystemText
    /\ consolidated[2].name = original[4].name
    /\ Len(original[4].steps) = 2
    /\ Len(consolidated[2].steps) = 3
    /\ consolidated[2].description # original[4].description

-----------------------------------------------------------------------------
(* Further properties of consolidate_all and the stored table  (specification Spec) *)

\* consolidate_all has returned in the current run and main() holds its result
Consolidated == pc \in {"stats", "validate", "dispatch"}

\* number of loaded records that belong to a merged category (more than 3
\* records, no special-case rule)
MergedRecords ==
    Sum([k \in 1..Len(stats.by_category) |->
            IF stats.by_category[k].before > 3 /\ stats.by_category[k].category # AudioSystem
            THEN stats.by_category[k].before ELSE 0])

\* C24: the steps of the records consolidate_all returns number at least the
\* steps of the loaded records: exactly that total plus one marker line for
\* every record of a merged category.
C24_StepTotalGrowsByMarkers ==
    Consolidated =>
        /\ TotalSteps(consolidated) >= TotalSteps(original)
        /\ TotalSteps(consolidated) = TotalSteps(original) + MergedRecords

\* a table with one merged category of 10 records among unmerged ones
C24_Witness ==
    /\ Consolidated
    /\ MergedRecords = 10
    /\ Len(stats.by_category) > 1
    /\ TotalSteps(original) > 0
    /\ TotalSteps(consolidated) = TotalSteps(original) + 10

\* C25 (as claimed): the table a migration installs as 'features' carries the
\* constraints of the table it replaces, and a seed insert that omits id gets
\* an id on it exactly as on the old table.
C25_SchemaPreserved ==
    (pc = "migrated") =>
        /\ disk["features"].constrained = pre["features"].constrained
        /\ (insert_features_id(disk["features"]) = NULL)
              = (insert_features_id(pre["features"]) = NULL)

\* C27 (as claimed): when validate fails, the totals and the breakdown of
\* every category computed by consolidate_all have been reported before it.
C27_StatsReportedBeforeValidationFailure ==
    ValidateFailed =>
        \E t \in 1..Len(report) : \E b \in (t + 1)..Len(report) :
            \E v \in (b + 1)..Len(report) :
                /\ report[t][1] = "totals"
                /\ report[b][1] = "by_category"
                /\ Len(report[b][2]) = Len(stats.by_category)
                /\ report[v][1] = "validation"

\* the step that commits a migration
CommitStep == pc = "commit" /\ pc' = "migrated"

\* the row counts of 'features' before each committed migration, and now
LiveCounts ==
    [k \in 1..Len(hist.lives) |-> Len(hist.lives[k])]
        \o << Len(disk["features"].rows) >>

\* C28: every committed migration leaves 'features' with strictly fewer rows
\* than before, between 250 and 600; over repeated runs the row count
\* strictly decreases from one committed migration to the next; once validate
\* has failed no later run enters the migration and the store stays as it is;
\* and from some point on no migration is committed any more.
C28_RepeatedRunsConverge ==
    /\ [][CommitStep =>
             /\ Len(disk'["features"].rows) < Len(disk["features"].rows)
             /\ Len(disk'["features"].rows) >= 250
             /\ Len(disk'["features"].rows) <= 600]_vars
    /\ [](AtRest => \A k \in 1..(Len(LiveCounts) - 1) : LiveCounts[k + 1] < LiveCounts[k])
    /\ [](hist.failed => ~InMigration)
    /\ [][hist.failed => disk' = disk]_vars
    /\ <>[][~CommitStep]_vars

\* a store after two committed migrations, the second of which merged parents
\* made by the first, on which a third run has failed validation
C28_Witness ==
    /\ ValidateFailed
    /\ args.execute
    /\ hist.failed
    /\ Len(hist.lives) = 2
    /\ Len(hist.lives[2]) < Len(hist.lives[1])
    /\ Len(disk["features"].rows) < Len(hist.lives[2])
    /\ Len(disk["features"].rows) >= 250
    /\ \E i \in 1..Len(hist.lives[2]) : \E j \in 1..Len(disk["features"].rows) :
          /\ Len(hist.lives[2][i].name) >= 10
          /\ SubSeq(hist.lives[2][i].name, 1, 10) = ImplementText
          /\ disk["features"].rows[j].id = hist.lives[2][i].id
          /\ disk["features"].rows[j].steps # hist.lives[2][i].steps

\* "Bundle of ", the head of every generated description
BundleOfText == <<66, 117, 110, 100, 108, 101, 32, 111, 102, 32>>

\* C29: after a committed migration get_all_features returns the records of
\* the consolidated list, each with every field equal (steps element by
\* element, flags, blocking reference absent on parents), in ascending
\* priority order.
C29_StorageRoundTrip ==
    (pc = "migrated") =>
        LET back == get_all_features(disk)
        IN  /\ Len(back) = Len(consolidated)
            /\ Range(back) = Range(consolidated)
            /\ \A i \in 1..(Len(back) - 1) : back[i].priority <= back[i + 1].priority
            /\ \A i \in 1..Len(back) :
                  (/\ Len(back[i].description) >= 10
                   /\ SubSeq(back[i].description, 1, 10) = BundleOfText)
                      => back[i].blocked_by_intervention_id = NULL

\* a committed list with parents that pass, marker lines written with a
\* non-ASCII character, unmerged records without steps, read back in another
\* order than the list's
C29_Witness ==
    /\ pc = "migrated"
    /\ get_all_features(disk) # consolidated
    /\ \E i \in 1..Len(consolidated) :
          /\ consolidated[i].passes
          /\ Len(consolidated[i].steps) > 0
          /\ consolidated[i].steps[1][2] = 10003
    /\ \E i \in 1..Len(consolidated) : consolidated[i].steps = <<>>
    /\ \E i \in 1..Len(consolidated) : consolidated[i].blocked_by_intervention_id # NULL

\* C30: every record consolidate_all returns has the priority of the loaded
\* record whose id it carries (for a parent, its first child); within one
\* category the returned records are in non-decreasing priority order; the
\* categories follow each other in lexicographic order of their names, the
\* records of one category next to each other.
C30_OrderOfConsolidatedList ==
    Consolidated =>
        /\ \A i \in 1..Len(consolidated) :
              \E j \in 1..Len(original) :
                  /\ original[j].id = consolidated[i].id
                  /\ original[j].priority = consolidated[i].priority
        /\ \A i \in 1..(Len(consolidated) - 1) :
              IF consolidated[i].category = consolidated[i + 1].category
              THEN consolidated[i].priority <= consolidated[i + 1].priority
              ELSE StrLess(consolidated[i].category, consolidated[i + 1].category)

\* a table whose scan order is not its priority order and whose category of
\* highest priorities comes first by name: merged parents of that category
\* precede records of lower priority
C30_Witness ==
    /\ Consolidated
    /\ Len(consolidated) < Len(original)
    /\ Len(consolidated) > 250
    /\ consolidated[1].category = Game
    /\ consolidated[1].priority < consolidated[2].priority
    /\ consolidated[2].category = Game
    /\ \E i \in 1..(Len(consolidated) - 1) :
          consolidated[i].priority > consolidated[i + 1].priority
    /\ \E i \in 1..(Len(disk["features"].rows) - 1) :
          disk["features"].rows[i].priority > disk["features"].rows[i + 1].priority

====
